---- MODULE Spec2Model ----
(***************************************************************************)
(* bunchive: backup (tar -> compress -> AES-CTR -> IV framing -> tee to a  *)
(* SHA-256 tap and a fan-out writer), restore (IV split -> decrypt ->      *)
(* decompress -> untar -> checksum verification) and the sliding-window    *)
(* cleanup of old archives.                                                *)
(*                                                                         *)
(* Bytes are numbers modulo ByteMod.  The library stages (tar-stream,      *)
(* CompressionStream, node:crypto) are modelled by what they do at that    *)
(* width: tar writes a header (marker, name, size) before each entry's     *)
(* content and an end marker; a compressed stream starts with the          *)
(* algorithm's magic byte, carries the transformed payload and (gzip) ends *)
(* with a check byte; the CTR cipher adds a key/IV/position dependent      *)
(* keystream byte to every byte.  Digests are ideal (collision free): a    *)
(* digest is the tuple of the hash function, its key and the hashed bytes. *)
(***************************************************************************)
EXTENDS Integers, Sequences, FiniteSets, TLC

\* ---------------------------------------------------------------- bounds
ByteMod == 4
MaxFileLen == 1
ChunkSize == 12
ReadSize == 4
MaxDest == 2
MaxArchives == 3
MaxKeep == 2
MaxRuns == 2

\* ------------------------------------------------------ program constants
IV_SIZE == 16

encryptionAlgorithms == {"aes-128-ctr", "aes-192-ctr", "aes-256-ctr"}

compressionAlgorithms == {"zstd", "gzip", "brotli", "deflate"}

timestampFormats == {"iso", "unix", "none"}

\* the algorithms the calls below are made with
EncryptionChoices == encryptionAlgorithms \ {"aes-192-ctr"}

CompressionChoices == compressionAlgorithms \ {"brotli", "deflate"}

Byte == 0..(ByteMod - 1)

\* ------------------------------------------------------- sequence helpers
Take(s, n) == SubSeq(s, 1, IF n < Len(s) THEN n ELSE Len(s))

Drop(s, n) == SubSeq(s, n + 1, Len(s))

RECURSIVE Flatten(_)
Flatten(chunks) ==
    IF chunks = <<>> THEN <<>> ELSE Head(chunks) \o Flatten(Tail(chunks))

RECURSIVE SumSeq(_)
SumSeq(s) == IF s = <<>> THEN 0 ELSE Head(s) + SumSeq(Tail(s))

RECURSIVE SplitChunks(_, _)
SplitChunks(s, n) ==
    IF s = <<>> THEN <<>> ELSE <<Take(s, n)>> \o SplitChunks(Drop(s, n), n)

IsPrefix(s, t) == Len(s) <= Len(t) /\ SubSeq(t, 1, Len(s)) = s

\* ------------------------------------------------------------ input files
Paths == {"a.txt", "b.txt"}

NameCode(p) == IF p = "a.txt" THEN 1 ELSE 2

CodeName(c) == IF c = 1 THEN "a.txt" ELSE "b.txt"

FileData == UNION {[1..n -> {0, 1}] : n \in 0..MaxFileLen}

Entry == [name : Paths, data : FileData]

\* what readFiles yields: the matched files in scan order, each file once
EntryLists ==
    {<<>>} \cup {<<e>> : e \in Entry}
           \cup {<<p[1], p[2]>> : p \in {q \in Entry \X Entry : q[1].name # q[2].name}}

\* -------------------------------------------------------------------- tar
TarHeader == 1
TarEnd == 0

RECURSIVE tarPack(_)
tarPack(entries) ==
    IF entries = <<>> THEN <<TarEnd>>
    ELSE LET e == Head(entries)
         IN  <<TarHeader, NameCode(e.name), Len(e.data)>> \o e.data
                 \o tarPack(Tail(entries))

\* extract(): the entries read before the end marker or before the first
\* malformed header; ok is FALSE when the stream is malformed or cut short
RECURSIVE tarExtract(_)
tarExtract(s) ==
    IF s = <<>> THEN [ok |-> FALSE, entries |-> <<>>]
    ELSE IF Head(s) = TarEnd THEN [ok |-> TRUE, entries |-> <<>>]
    ELSE IF Head(s) # TarHeader \/ Len(s) < 3 THEN [ok |-> FALSE, entries |-> <<>>]
    ELSE IF s[2] \notin {1, 2} \/ Len(s) < 3 + s[3]
         THEN [ok |-> FALSE, entries |-> <<>>]
    ELSE LET e == [name |-> CodeName(s[2]), data |-> SubSeq(s, 4, 3 + s[3])]
             r == tarExtract(Drop(s, 3 + s[3]))
         IN  [ok |-> r.ok, entries |-> <<e>> \o r.entries]

\* ------------------------------------------------------------ compression
Magic(alg) == IF alg = "zstd" THEN 2 ELSE 3

Shift(alg) == IF alg = "zstd" THEN 1 ELSE 2

\* gzip ends with a CRC of the payload; a zstd frame carries none
HasCheck(alg) == alg = "gzip"

CheckByte(s) == SumSeq(s) % ByteMod

compress(alg, s) ==
    <<Magic(alg)>> \o [i \in 1..Len(s) |-> (s[i] + Shift(alg)) % ByteMod]
                   \o (IF HasCheck(alg) THEN <<CheckByte(s)>> ELSE <<>>)

\* DecompressionStream: errors on a wrong magic byte, a cut stream or a
\* payload that does not match its check
decompress(alg, z) ==
    LET k == IF HasCheck(alg) THEN 2 ELSE 1
    IN  IF Len(z) < k \/ z[1] # Magic(alg) THEN [ok |-> FALSE, data |-> <<>>]
        ELSE LET n == Len(z) - k
                 d == [i \in 1..n |-> (z[i + 1] + ByteMod - Shift(alg)) % ByteMod]
             IN  IF HasCheck(alg) /\ z[Len(z)] # CheckByte(d)
                 THEN [ok |-> FALSE, data |-> <<>>]
                 ELSE [ok |-> TRUE, data |-> d]

\* ----------------------------------------------------------------- cipher
Keys == {[len |-> 16, id |-> 1], [len |-> 32, id |-> 2]}

KeySize(alg) ==
    CASE alg = "aes-128-ctr" -> 16
      [] alg = "aes-192-ctr" -> 24
      [] alg = "aes-256-ctr" -> 32

\* a cipher that takes a key of any length
KeyFits_any(alg, key) == TRUE

\* createCipheriv / createDecipheriv throw on a key of the wrong length
KeyFits(alg, key) == key.len = KeySize(alg)

IVs == {[i \in 1..IV_SIZE |-> IF i = 1 THEN v ELSE 0] : v \in {1, 2}}

\* the CTR keystream byte at position i, a function of key, IV and position
KeyStream(key, ivSum, i) == (key.id + ivSum + i) % ByteMod

\* cipher.update over the whole plaintext: CTR keeps its position across chunks
cipherUpdate(key, iv, p) ==
    LET ivSum == SumSeq(iv)
    IN  [i \in 1..Len(p) |-> (p[i] + KeyStream(key, ivSum, i)) % ByteMod]

decipherUpdate(key, iv, c) ==
    LET ivSum == SumSeq(iv)
    IN  [i \in 1..Len(c) |-> (c[i] + ByteMod - KeyStream(key, ivSum, i)) % ByteMod]

\* ---------------------------------------------------------------- digests
NoDigest == [fn |-> "none", key |-> 0, data |-> <<>>]

\* createHash("sha256").update(...).digest("hex")
sha256(bytes) == [fn |-> "sha256", key |-> 0, data |-> bytes]

\* createHmac("sha256", key).update(...).digest("hex")
hmacSha256(key, bytes) == [fn |-> "hmac-sha256", key |-> key.id * 100 + key.len, data |-> bytes]

\* digest("hex"): the text of a digest, in lower-case hex digits
digestHex(d) == [digest |-> d, upper |-> FALSE]

\* --------------------------------------------------- the backup pipeline
\* EncryptionStream: transform() enqueues cipher.update(chunk) for every
\* compressed chunk, flush() enqueues cipher.final(), empty in CTR mode
EncryptionStream(key, iv, compressed) ==
    SplitChunks(cipherUpdate(key, iv, compressed), ChunkSize) \o << <<>> >>

encryptedStream(entries, key, iv, comp) ==
    EncryptionStream(key, iv, compress(comp, tarPack(entries)))

\* the framed stream: the IV chunk, then the cipher's chunks
streamWithIv(entries, key, iv, comp) ==
    <<iv>> \o encryptedStream(entries, key, iv, comp)

\* ----------------------------------------------------------- destinations
\* A destination is a local path or an s3:// object; mkdir, write, end and
\* side say whether mkdirSync(dirname), write+flush on the sink, end() on
\* the sink and the write of the .sha256 file succeed there.
DestProfiles ==
    [kind : {"local", "s3"}, mkdir : BOOLEAN, write : BOOLEAN,
     end : BOOLEAN, side : BOOLEAN]

Healthy(d) == d.write /\ d.end /\ d.side /\ (d.kind = "local" => d.mkdir)

LocalOk == [kind |-> "local", mkdir |-> TRUE, write |-> TRUE, end |-> TRUE, side |-> TRUE]

S3Ok == [kind |-> "s3", mkdir |-> TRUE, write |-> TRUE, end |-> TRUE, side |-> TRUE]

Dests == 1..MaxDest

NoFile == [exists |-> FALSE, bytes |-> <<>>]

\* a .sha256 file: the digest its text names, whether the hex digits are
\* upper-case, and the whitespace before and after them
NoSidecar == [exists |-> FALSE, hex |-> NoDigest, upper |-> FALSE,
              lead |-> "", tail |-> ""]

NoSink == [handed |-> <<>>, failed |-> FALSE, ended |-> FALSE]

VARIABLES
    call,       \* the arguments of backup() and the state of its destinations
    b_pc,       \* where backup() is
    b_err,      \* the error backup() threw, "" when none
    b_ret,      \* the checksum backup() returned
    b_i,        \* index of the for loops over writers / outputPaths
    encQ,       \* chunks encryptedStream has yet to yield
    ivQ,        \* queue of the stream prependIv returns
    ivClosed,   \* prependIv's start() is over: controller.close(), or a throw
    qFinal,     \* tee branch read by writeToMultipleSinks
    qHash,      \* tee branch piped to the checksum stream
    teeDone,    \* the tee'd stream ended: both branches are closed
    hashData,   \* bytes hash.update() has seen
    hashOut,    \* what hashPromise resolved to
    pending,    \* sinks whose write+flush of the current chunk has not settled
    sinks,      \* per output path: chunks handed to the sink, failures, end()
    made,       \* output paths whose directory prepareOutputs created
    archive,    \* per destination: the persisted archive
    sidecar,    \* per destination: the persisted <archive>.sha256
    tampered,   \* destinations whose archive was changed after the backup
    prev,       \* IV and archives of the backup() call before this one
    outFault,   \* the file operation that fails, and the entry it fails for
    r_arg,      \* the arguments of restore()
    r_pc,       \* where restore() is
    r_res,      \* how restore() ended
    r_iv,       \* the IV restore() split off
    r_buf,      \* remainingFirstChunk: the first chunk without the IV
    r_rest,     \* the chunks the source reader has yet to yield
    r_todo,     \* tar entries extractStream has yet to emit
    r_tarOk,    \* the tar stream is well formed up to its end marker
    r_cur,      \* the entry whose "entry" handler has not yet called next()
    r_open,     \* names of the entries whose file writer is not yet ended
    r_log,      \* names of the entries in the order their handlers started
    r_sawSide,  \* verifyChecksumFile found a sidecar
    outDir,     \* the output directory of restore()
    dir,        \* the names at the destination cleanup works on
    cl_dir0,    \* the names there when cleanupOldBackups() was called
    undeletable,\* names whose unlink / delete fails
    cl_arg,     \* the arguments of cleanupOldBackups()
    cl_pc,      \* where cleanupOldBackups() is
    cl_res,     \* how it ended
    cl_listed,  \* the destination was listed
    cl_del,     \* filesToDelete, what is left of it
    cl_step,    \* the unlink that is next: "file" or "side"
    cl_caught,  \* names whose failed unlink was caught
    cli_arg,    \* the options of the CLI's backup command
    cli_pc,     \* where the CLI is
    cli_res,    \* how the CLI ended
    cli_wrote,  \* the CLI's backup() wrote its archive
    cli_runs,   \* the runs of executeBackup: instant and archive name
    o_runs,     \* overlapping runs of executeBackup: where each is
    o_files,    \* per archive name: the run whose bytes each chunk holds
    o_side      \* per archive name: the run whose digest its sidecar holds

vars ==
    <<call, b_pc, b_err, b_ret, b_i, encQ, ivQ, ivClosed, qFinal, qHash,
      teeDone, hashData, hashOut, pending, sinks, made, archive, sidecar,
      tampered, prev, outFault,
      r_arg, r_pc, r_res, r_iv, r_buf, r_rest, r_todo, r_tarOk, r_sawSide,
      r_cur, r_open, r_log,
      outDir,
      dir, undeletable, cl_dir0, cl_arg, cl_pc, cl_res, cl_listed, cl_del,
      cl_step, cl_caught, cli_arg, cli_pc, cli_res, cli_wrote, cli_runs,
      o_runs, o_files, o_side>>

backupVars ==
    <<b_pc, b_err, b_ret, b_i, encQ, ivQ, ivClosed, qFinal, qHash, teeDone,
      hashData, hashOut, pending, sinks, made>>

restoreVars ==
    <<r_arg, r_pc, r_res, r_iv, r_buf, r_rest, r_todo, r_tarOk, r_sawSide,
      r_cur, r_open, r_log, outDir>>

cleanupVars ==
    <<dir, undeletable, cl_dir0, cl_arg, cl_pc, cl_res, cl_listed, cl_del,
      cl_step, cl_caught, cli_arg, cli_pc, cli_res, cli_wrote, cli_runs,
      o_runs, o_files, o_side>>

NoArg == [source |-> 0, key |-> [len |-> 0, id |-> 0], enc |-> "", comp |-> "", verify |-> FALSE]

NoFiles == [n \in {} |-> <<>>]

NoOut == [exists |-> FALSE, files |-> NoFiles]

N == Len(call.outs)

Stream == streamWithIv(call.entries, call.key, call.iv, call.comp)

NoEntry == [name |-> "", data |-> <<>>]

NoPrev == [ran |-> FALSE, iv |-> <<>>, archive |-> <<>>]

\* no failure of the file system under the output directory
NoFault == [op |-> "none", name |-> ""]

\* backup() has not been called and nothing is at the destinations
InitBackupState ==
    /\ b_pc = "idle" /\ b_err = "" /\ b_ret = NoDigest /\ b_i = 0
    /\ encQ = <<>> /\ ivQ = <<>> /\ ivClosed = FALSE
    /\ qFinal = <<>> /\ qHash = <<>> /\ teeDone = FALSE
    /\ hashData = <<>> /\ hashOut = NoDigest
    /\ pending = {}
    /\ sinks = [i \in Dests |-> NoSink]
    /\ made = {}
    /\ archive = [i \in Dests |-> NoFile]
    /\ sidecar = [i \in Dests |-> NoSidecar]
    /\ tampered = {}

\* restore() has not been called
InitRestoreState ==
    /\ r_arg = NoArg /\ r_pc = "idle" /\ r_res = "none"
    /\ r_iv = <<>> /\ r_buf = <<>> /\ r_rest = <<>> /\ r_sawSide = FALSE
    /\ r_todo = <<>> /\ r_tarOk = TRUE
    /\ r_cur = NoEntry /\ r_open = {} /\ r_log = <<>>
    /\ outDir = NoOut

InitState ==
    /\ prev = NoPrev
    /\ outFault = NoFault
    /\ InitBackupState /\ InitRestoreState

NoCleanupArg == [kind |-> "", count |-> 0, fmt |-> "", alg |-> ""]

NoCliArg == [count |-> "", fmt |-> "", alg |-> ""]

\* the scheduled runs of executeBackup that may overlap
Runs == 1..MaxRuns

NoName == [form |-> "", ts |-> <<>>, alg |-> "", sha |-> FALSE]

NoRun == [pc |-> "idle", t |-> 0, name |-> NoName, res |-> "none"]

InitCleanupState ==
    /\ cl_arg = NoCleanupArg /\ cl_pc = "idle" /\ cl_res = "none"
    /\ cl_listed = FALSE /\ cl_del = <<>> /\ cl_step = "file" /\ cl_caught = {}
    /\ cli_arg = NoCliArg /\ cli_pc = "idle" /\ cli_res = "none"
    /\ cli_wrote = FALSE /\ cl_dir0 = {} /\ cli_runs = <<>>
    /\ o_runs = [r \in Runs |-> NoRun] /\ o_files = <<>> /\ o_side = <<>>

\* any files, any (key, cipher, compression), healthy destinations
InitRoundTrip ==
    /\ call \in [entries : EntryLists, key : Keys, enc : EncryptionChoices,
                 comp : CompressionChoices, iv : IVs,
                 outs : {<<LocalOk, S3Ok>>}]
    /\ InitState
    /\ dir = {} /\ undeletable = {} /\ InitCleanupState

\* output paths of which at most one is unhealthy
OutputPaths ==
    {o \in UNION {[1..n -> {d \in DestProfiles : d.kind = "s3" => d.mkdir}] : n \in 1..MaxDest} :
        Cardinality({i \in DOMAIN o : ~Healthy(o[i])}) <= 1}

\* one small set of files, destinations that may fail
InitFaults ==
    /\ call \in [entries : {<<[name |-> "a.txt", data |-> <<1>>]>>},
                 key : {[len |-> 32, id |-> 2]}, enc : {"aes-256-ctr"},
                 comp : {"zstd"}, iv : IVs, outs : OutputPaths]
    /\ InitState
    /\ dir = {} /\ undeletable = {} /\ InitCleanupState

Init == InitRoundTrip \/ InitFaults

\* ------------------------------------------------------------ backup()
\* backup.ts 51: prependIv's start() enqueues the IV before anything else
prependIv_noIv(iv) == <<>>

prependIv_start(iv) == <<iv>>

\* backup.ts 78: writer.write(value), for every writer
handChunk_skipFailed(sink, value) ==
    IF sink.failed THEN sink ELSE [sink EXCEPT !.handed = Append(@, value)]

handChunk(sink, value) == [sink EXCEPT !.handed = Append(@, value)]

\* backup.ts 76: Promise.allSettled resolves once every writer's promise
\* has settled, whether fulfilled (ok) or rejected
all_rejects(ok, left) ==
    IF ~ok THEN "failed" ELSE IF left = {} THEN "read" ELSE "settle"

allSettled(ok, left) == IF left = {} THEN "read" ELSE "settle"

\* backup.ts 27-40: the cipher is created (and the key checked), the
\* pipeline is assembled, prependIv's start() enqueues the IV, the tee
\* branches are made, the sinks are prepared and the checksum branch piped
prepareOutputs_ok == \A i \in 1..N : call.outs[i].kind = "local" => call.outs[i].mkdir

\* backup.ts 90-96: the directories mkdirSync has created when the loop of
\* prepareOutputs ends or throws: those of the local paths before the first
\* one whose mkdirSync fails
prepareOutputs_made ==
    {i \in 1..N :
        /\ call.outs[i].kind = "local"
        /\ \A j \in 1..i : call.outs[j].kind = "local" => call.outs[j].mkdir}

backup_start ==
    /\ b_pc = "idle"
    /\ IF ~KeyFits(call.enc, call.key)
       THEN /\ b_pc' = "failed" /\ b_err' = "KeyLength"
            /\ UNCHANGED <<ivQ, encQ, made>>
       ELSE /\ encQ' = encryptedStream(call.entries, call.key, call.iv, call.comp)
            /\ ivQ' = prependIv_start(call.iv)
            /\ made' = prepareOutputs_made
            /\ IF prepareOutputs_ok
               THEN b_pc' = "read" /\ b_err' = b_err
               ELSE b_pc' = "failed" /\ b_err' = "Mkdir"
    /\ UNCHANGED <<call, b_ret, b_i, ivClosed, qFinal, qHash, teeDone,
                   hashData, hashOut, pending, sinks, archive, sidecar, tampered, prev, outFault>>
    /\ UNCHANGED restoreVars
    /\ UNCHANGED cleanupVars

PipelineBuilt == b_pc # "idle" /\ b_err # "KeyLength"

\* backup.ts 107-137: stat() or a read() of one of the files throws; the
\* catch destroys the tar pack with the error, which errors the streams
\* piped from it
sourceFails ==
    /\ outFault.op = "read"
    /\ \E k \in 1..Len(call.entries) : call.entries[k].name = outFault.name

\* the stream prependIv returns is errored: reader.read() rejected inside
\* start(), so start() threw instead of calling controller.close()
Errored == ivClosed /\ sourceFails

\* backup.ts 54-63: one turn of the loop in prependIv's start().  When the
\* source fails, the error arrives in place of one of the chunks (the last
\* one at the latest); an errored stream drops what is queued in it.
prependIv ==
    /\ PipelineBuilt /\ ~ivClosed
    /\ \E error \in (IF sourceFails /\ encQ # <<>>
                      THEN (IF Len(encQ) = 1 THEN {TRUE} ELSE BOOLEAN)
                      ELSE {FALSE}) :
          IF error
          THEN /\ ivClosed' = TRUE
               /\ ivQ' = <<>>
               /\ encQ' = <<>>
          ELSE IF encQ # <<>>
               THEN /\ ivQ' = Append(ivQ, Head(encQ))
                    /\ encQ' = Tail(encQ)
                    /\ UNCHANGED ivClosed
               ELSE /\ ivClosed' = TRUE
                    /\ UNCHANGED <<ivQ, encQ>>
    /\ UNCHANGED <<call, b_pc, b_err, b_ret, b_i, qFinal, qHash, teeDone,
                   hashData, hashOut, pending, sinks, archive, sidecar, tampered, prev, outFault>>
    /\ UNCHANGED made
    /\ UNCHANGED restoreVars
    /\ UNCHANGED cleanupVars

\* backup.ts 36: streamWithIv.tee(); a pull of either branch (each has a
\* high-water mark of one chunk) reads the source and enqueues to both
\* an error of the source errors both branches, whether or not a pull is
\* pending, and drops what is queued in them
tee ==
    /\ PipelineBuilt /\ ~teeDone
    /\ Len(qFinal) < 1 \/ Len(qHash) < 1 \/ Errored
    /\ IF ivQ # <<>>
       THEN /\ qFinal' = Append(qFinal, Head(ivQ))
            /\ qHash' = Append(qHash, Head(ivQ))
            /\ ivQ' = Tail(ivQ)
            /\ UNCHANGED teeDone
       ELSE /\ ivClosed
            /\ teeDone' = TRUE
            /\ qFinal' = IF Errored THEN <<>> ELSE qFinal
            /\ qHash' = IF Errored THEN <<>> ELSE qHash
            /\ UNCHANGED ivQ
    /\ UNCHANGED <<call, b_pc, b_err, b_ret, b_i, encQ, ivClosed,
                   hashData, hashOut, pending, sinks, archive, sidecar, tampered, prev, outFault>>
    /\ UNCHANGED made
    /\ UNCHANGED restoreVars
    /\ UNCHANGED cleanupVars

Piped == PipelineBuilt /\ b_err # "Mkdir"

\* backup.ts 39, 179-188: the checksum stream's write() and close(); when
\* the piped branch is errored pipeTo aborts the stream, close() is not
\* called and hashPromise stays pending
createChecksumStream ==
    /\ Piped /\ hashOut = NoDigest
    /\ IF qHash # <<>>
       THEN /\ hashData' = hashData \o Head(qHash)
            /\ qHash' = Tail(qHash)
            /\ UNCHANGED hashOut
       ELSE /\ teeDone /\ ~Errored
            /\ hashOut' = sha256(hashData)
            /\ UNCHANGED <<hashData, qHash>>
    /\ UNCHANGED <<call, b_pc, b_err, b_ret, b_i, encQ, ivQ, ivClosed, qFinal,
                   teeDone, pending, sinks, archive, sidecar, tampered, prev, outFault>>
    /\ UNCHANGED made
    /\ UNCHANGED restoreVars
    /\ UNCHANGED cleanupVars

\* a loop that takes the rejection of read() for the end of the stream
read_done(errored) == "end"

\* backup.ts 74-75: reader.read() once the branch has no chunk left: done
\* when the stream is closed, a rejection, which writeToMultipleSinks and
\* backup() throw on, when it is errored
read(errored) == IF errored THEN "failed" ELSE "end"

\* backup.ts 74-78: reader.read(); on a chunk, every writer's write(value)
\* is called in turn and its flush awaited; on done the loop ends
writeToMultipleSinks_read ==
    /\ b_pc = "read"
    /\ IF qFinal # <<>>
       THEN /\ sinks' = [i \in Dests |->
                          IF i <= N
                          THEN handChunk(sinks[i], Head(qFinal))
                          ELSE sinks[i]]
            /\ qFinal' = Tail(qFinal)
            /\ pending' = 1..N
            /\ b_pc' = "settle"
            /\ UNCHANGED <<b_i, b_err>>
       ELSE /\ teeDone
            /\ b_pc' = read(Errored)
            /\ b_err' = IF b_pc' = "failed" THEN "Source" ELSE b_err
            /\ b_i' = IF b_pc' = "failed" THEN b_i ELSE 1
            /\ UNCHANGED <<sinks, qFinal, pending>>
    /\ UNCHANGED <<call, b_ret, encQ, ivQ, ivClosed, qHash, teeDone,
                   hashData, hashOut, archive, sidecar, tampered, prev, outFault>>
    /\ UNCHANGED made
    /\ UNCHANGED restoreVars
    /\ UNCHANGED cleanupVars

LastHanded(i) == sinks[i].handed[Len(sinks[i].handed)]

\* backup.ts 76-81: one writer's write+flush settles; a rejection is
\* swallowed by Promise.allSettled
writeToMultipleSinks_settle(i) ==
    /\ b_pc = "settle" /\ i \in pending
    /\ IF call.outs[i].write
       THEN /\ archive' = [archive EXCEPT ![i] =
                             [exists |-> TRUE, bytes |-> @.bytes \o LastHanded(i)]]
            /\ UNCHANGED sinks
       ELSE /\ sinks' = [sinks EXCEPT ![i].failed = TRUE]
            /\ UNCHANGED archive
    /\ pending' = pending \ {i}
    /\ b_pc' = allSettled(call.outs[i].write, pending')
    /\ UNCHANGED <<call, b_err, b_ret, b_i, encQ, ivQ, ivClosed, qFinal, qHash,
                   teeDone, hashData, hashOut, sidecar, tampered, prev, outFault>>
    /\ UNCHANGED made
    /\ UNCHANGED restoreVars
    /\ UNCHANGED cleanupVars

\* backup.ts 83-85: await writer.end(), one writer after the other; a
\* rejection leaves the loop and rejects backup()
writeToMultipleSinks_end ==
    /\ b_pc = "end"
    /\ IF call.outs[b_i].end
       THEN /\ sinks' = [sinks EXCEPT ![b_i].ended = TRUE]
            /\ archive' = [archive EXCEPT ![b_i].exists = TRUE]
            /\ b_pc' = IF b_i = N THEN "hash" ELSE "end"
            /\ b_i' = IF b_i = N THEN 0 ELSE b_i + 1
            /\ UNCHANGED b_err
       ELSE /\ b_pc' = "failed" /\ b_err' = "End"
            /\ UNCHANGED <<sinks, archive, b_i>>
    /\ UNCHANGED <<call, b_ret, encQ, ivQ, ivClosed, qFinal, qHash, teeDone,
                   hashData, hashOut, pending, sidecar, tampered, prev, outFault>>
    /\ UNCHANGED made
    /\ UNCHANGED restoreVars
    /\ UNCHANGED cleanupVars

\* backup.ts 42: await hashPromise
backup_awaitHash ==
    /\ b_pc = "hash" /\ hashOut # NoDigest
    /\ b_pc' = "sidecar" /\ b_i' = 1
    /\ UNCHANGED <<call, b_err, b_ret, encQ, ivQ, ivClosed, qFinal, qHash, teeDone,
                   hashData, hashOut, pending, sinks, archive, sidecar, tampered, prev, outFault>>
    /\ UNCHANGED made
    /\ UNCHANGED restoreVars
    /\ UNCHANGED cleanupVars

\* backup.ts 42-45, 76: the value backup() returns is the checksum alone;
\* the outcomes Promise.allSettled collected are dropped, so the result
\* names no destination as failed
failedDestinations == {}

\* backup.ts 193-198 and 45: one .sha256 file per output path, in order,
\* then the checksum is returned; a failed write rejects backup()
writeChecksumFiles ==
    /\ b_pc = "sidecar"
    /\ IF call.outs[b_i].side
       THEN /\ sidecar' = [sidecar EXCEPT ![b_i] =
                             [exists |-> TRUE, hex |-> hashOut, upper |-> FALSE,
                              lead |-> "", tail |-> "\n"]]
            /\ b_pc' = IF b_i = N THEN "done" ELSE "sidecar"
            /\ b_ret' = IF b_i = N THEN hashOut ELSE b_ret
            /\ b_i' = IF b_i = N THEN 0 ELSE b_i + 1
            /\ UNCHANGED b_err
       ELSE /\ b_pc' = "failed" /\ b_err' = "Sidecar"
            /\ UNCHANGED <<sidecar, b_ret, b_i>>
    /\ UNCHANGED <<call, encQ, ivQ, ivClosed, qFinal, qHash, teeDone,
                   hashData, hashOut, pending, sinks, archive, tampered, prev, outFault>>
    /\ UNCHANGED made
    /\ UNCHANGED restoreVars
    /\ UNCHANGED cleanupVars

BackupNext ==
    \/ backup_start
    \/ prependIv
    \/ tee
    \/ createChecksumStream
    \/ writeToMultipleSinks_read
    \/ \E i \in Dests : writeToMultipleSinks_settle(i)
    \/ writeToMultipleSinks_end
    \/ backup_awaitHash
    \/ writeChecksumFiles

BackupOver == b_pc \in {"done", "failed"}

\* an EncryptionStream that keeps the IV of the stream before it
randomBytes_reused(used) == used

\* backup.ts 155: every EncryptionStream draws its IV with
\* randomBytes(IV_SIZE) in its constructor.  A draw of 16 random bytes is
\* taken never to repeat one drawn before.
randomBytes(used) == IVs \ used

\* backup.ts 14-46: backup() called once more with the files, key, options
\* and output paths of the call that has just returned; the sinks are opened
\* anew and the archives are written from their start
backup_again ==
    /\ b_pc = "done" /\ r_pc = "idle" /\ tampered = {} /\ ~prev.ran
    /\ \E iv \in randomBytes({call.iv}) : call' = [call EXCEPT !.iv = iv]
    /\ prev' = [ran |-> TRUE, iv |-> call.iv, archive |-> archive]
    /\ b_pc' = "idle" /\ b_err' = "" /\ b_ret' = NoDigest /\ b_i' = 0
    /\ encQ' = <<>> /\ ivQ' = <<>> /\ ivClosed' = FALSE
    /\ qFinal' = <<>> /\ qHash' = <<>> /\ teeDone' = FALSE
    /\ hashData' = <<>> /\ hashOut' = NoDigest
    /\ pending' = {}
    /\ sinks' = [i \in Dests |-> NoSink]
    /\ made' = {}
    /\ archive' = [i \in Dests |-> NoFile]
    /\ sidecar' = [i \in Dests |-> NoSidecar]
    /\ UNCHANGED <<tampered, outFault>>
    /\ UNCHANGED restoreVars
    /\ UNCHANGED cleanupVars

\* the failures of the files backup() reads: stat() or read() throws
ReadFaults == {[op |-> "read", name |-> p] : p \in Paths}

\* a second output path at which one operation fails
FailingPaths ==
    {[LocalOk EXCEPT ![f] = FALSE] : f \in {"mkdir", "write", "end", "side"}}

\* backup() of no file, of one and of two, with a key of either length, to
\* one path or to two of which the second may fail, and with or without
\* a file that cannot be read
InitSettle ==
    /\ call \in [entries : {<<>>,
                            <<[name |-> "a.txt", data |-> <<1>>]>>,
                            <<[name |-> "a.txt", data |-> <<1>>],
                              [name |-> "b.txt", data |-> <<0>>]>>},
                 key : Keys, enc : {"aes-256-ctr"},
                 comp : CompressionChoices, iv : {CHOOSE iv \in IVs : TRUE},
                 outs : {<<LocalOk>>, <<LocalOk, S3Ok>>}
                          \cup {<<LocalOk, d>> : d \in FailingPaths}]
    /\ prev = NoPrev
    /\ outFault \in {NoFault} \cup ReadFaults
    /\ InitBackupState /\ InitRestoreState
    /\ dir = {} /\ undeletable = {} /\ InitCleanupState

\* the event loop runs every continuation that is ready, and every write,
\* flush and end of a sink settles: a step of backup() that can be taken is
\* taken in the end
SpecSettle == InitSettle /\ [][BackupNext]_vars /\ WF_vars(BackupNext)

\* two successive backups of the same input with the same key
NextRepeat ==
    \/ BackupNext
    \/ backup_again

SpecRepeat == Init /\ [][NextRepeat]_vars

\* ----------------------------------------------------------- restore()
\* the files on disk after the entries were written one after the other
RECURSIVE WriteEntries(_, _)
WriteEntries(files, entries) ==
    IF entries = <<>> THEN files
    ELSE LET e == Head(entries)
         IN  WriteEntries([n \in DOMAIN files \cup {e.name} |->
                              IF n = e.name THEN e.data ELSE files[n]],
                          Tail(entries))

\* sizes of the first chunk the source reader may yield; 0 stands for an
\* empty source, whose first read() is already done
FirstLens(F) ==
    IF F = <<>> THEN {0}
    ELSE {IV_SIZE - 1, IV_SIZE, IV_SIZE + 1, Len(F)} \cap 1..Len(F)

tooSmall_never(first) == FALSE

\* restore.ts 34: firstChunk.done || firstChunk.value.length < IV_SIZE
tooSmall(first) == Len(first) < IV_SIZE

\* a source stream that starts with the reader's second chunk
createEncryptedStream_noBuffer(firstChunk, rest) ==
    SelectSeq(rest, LAMBDA c : Len(c) > 0)

\* restore.ts 55-88: the stream handed to the decipher: the rest of the
\* first chunk unless empty, then every non-empty chunk of the reader
createEncryptedStream(firstChunk, rest) ==
    (IF Len(firstChunk) > 0 THEN <<firstChunk>> ELSE <<>>)
        \o SelectSeq(rest, LAMBDA c : Len(c) > 0)

\* restore.ts 29-47 up to the first await inside extractFiles: the first
\* chunk is read and split, the decipher created (and the key checked),
\* and extractFiles creates the output directory
restore_start(src, key, comp, verify, n) ==
    /\ r_pc = "idle" /\ BackupOver
    /\ archive[src].exists
    /\ LET F == archive[src].bytes
           first == Take(F, n)
       IN  /\ r_arg' = [source |-> src, key |-> key, enc |-> call.enc,
                        comp |-> comp, verify |-> verify]
           /\ IF tooSmall(first)
              THEN /\ r_pc' = "done" /\ r_res' = "TooSmall"
                   /\ UNCHANGED <<r_iv, r_buf, r_rest, outDir>>
              ELSE IF ~KeyFits(call.enc, key)
              THEN /\ r_pc' = "done" /\ r_res' = "KeyLength"
                   /\ r_iv' = Take(first, IV_SIZE)
                   /\ r_buf' = Drop(first, IV_SIZE)
                   /\ UNCHANGED <<r_rest, outDir>>
              ELSE /\ r_pc' = "extract" /\ r_res' = r_res
                   /\ r_iv' = Take(first, IV_SIZE)
                   /\ r_buf' = Drop(first, IV_SIZE)
                   /\ r_rest' = SplitChunks(Drop(F, n), ReadSize)
                   /\ outDir' = [outDir EXCEPT !.exists = TRUE]
    /\ UNCHANGED <<r_sawSide, r_todo, r_tarOk, r_cur, r_open, r_log>>
    /\ UNCHANGED <<call, archive, sidecar, tampered, prev, outFault>>
    /\ UNCHANGED backupVars
    /\ UNCHANGED cleanupVars

\* restore.ts 42-47, 139-143, 183: decrypt, decompress and pipe into the
\* tar extractor.  A decompression error errors the web stream;
\* nodeStream.pipe() does not forward it to extractStream, so the promise
\* of extractFiles never settles ("Uncaught").
extractFiles ==
    /\ r_pc = "extract"
    /\ LET c == Flatten(createEncryptedStream(r_buf, r_rest))
           d == decompress(r_arg.comp, decipherUpdate(r_arg.key, r_iv, c))
           t == tarExtract(d.data)
       IN  IF ~d.ok
           THEN /\ r_pc' = "stuck" /\ r_res' = "Uncaught"
                /\ UNCHANGED <<r_todo, r_tarOk>>
           ELSE /\ r_pc' = "entry" /\ r_res' = r_res
                /\ r_todo' = t.entries /\ r_tarOk' = t.ok
    /\ UNCHANGED <<r_arg, r_iv, r_buf, r_rest, r_sawSide, outDir>>
    /\ UNCHANGED <<r_cur, r_open, r_log>>
    /\ UNCHANGED <<call, archive, sidecar, tampered, prev, outFault>>
    /\ UNCHANGED backupVars
    /\ UNCHANGED cleanupVars

\* restore.ts 146-152: the extractor emits the next entry once next() was
\* called for the one before; the "entry" handler opens the file's writer
\* A throw of mkdirSync (149) comes before the handler's try block: the
\* async handler's promise rejects with nobody awaiting it, next() is never
\* called and the promise of extractFiles never settles ("Unhandled").
extractFiles_entry ==
    /\ r_pc = "entry" /\ r_todo # <<>> /\ r_cur = NoEntry
    /\ r_cur' = Head(r_todo)
    /\ r_todo' = Tail(r_todo)
    /\ r_log' = Append(r_log, Head(r_todo).name)
    /\ IF outFault = [op |-> "mkdir", name |-> Head(r_todo).name]
       THEN /\ r_pc' = "stuck" /\ r_res' = "Unhandled"
            /\ UNCHANGED r_open
       ELSE /\ r_open' = r_open \cup {Head(r_todo).name}
            /\ UNCHANGED <<r_pc, r_res>>
    /\ UNCHANGED <<r_arg, r_iv, r_buf, r_rest, r_tarOk, r_sawSide, outDir>>
    /\ UNCHANGED <<call, archive, sidecar, tampered, prev, outFault>>
    /\ UNCHANGED backupVars
    /\ UNCHANGED cleanupVars

\* an "end" handler that calls next() without awaiting writer.end()
closedBeforeNext_none(name) == {}

\* restore.ts 160-163: `await writer.end(); next();`: the writers that are
\* closed when next() is called
closedBeforeNext(name) == {name}

\* restore.ts 155-163: the entry's data events write its bytes, its "end"
\* event ends the writer and then calls next().  A rejection of
\* writer.end() (161) rejects the promise of the async "end" listener,
\* which nobody awaits: next() is not called, extractFiles never settles.
extractFiles_entryEnd ==
    /\ r_pc = "entry" /\ r_cur # NoEntry
    /\ IF outFault = [op |-> "end", name |-> r_cur.name]
       THEN /\ r_pc' = "stuck" /\ r_res' = "Unhandled"
            /\ UNCHANGED <<outDir, r_open, r_cur>>
       ELSE /\ outDir' = [outDir EXCEPT !.files = WriteEntries(@, <<r_cur>>)]
            /\ r_open' = r_open \ closedBeforeNext(r_cur.name)
            /\ r_cur' = NoEntry
            /\ UNCHANGED <<r_pc, r_res>>
    /\ UNCHANGED <<r_arg, r_iv, r_buf, r_rest, r_todo, r_tarOk, r_sawSide, r_log>>
    /\ UNCHANGED <<call, archive, sidecar, tampered, prev, outFault>>
    /\ UNCHANGED backupVars
    /\ UNCHANGED cleanupVars

extractionFinished_early(todo) == TRUE

\* restore.ts 175-181: extractStream emits "finish" or "error" once the
\* last entry's next() was called
extractionFinished(todo) == todo = <<>>

\* restore.ts 175-181, 47-49: "error" rejects extractFiles, "finish"
\* resolves it and restore() goes on to verification if asked to
extractFiles_finish ==
    /\ r_pc = "entry" /\ extractionFinished(r_todo) /\ r_cur = NoEntry
    /\ IF ~r_tarOk THEN r_pc' = "done" /\ r_res' = "ExtractError"
       ELSE IF r_arg.verify THEN r_pc' = "verify" /\ r_res' = r_res
       ELSE r_pc' = "done" /\ r_res' = "ok"
    /\ UNCHANGED <<r_arg, r_iv, r_buf, r_rest, r_todo, r_tarOk, r_sawSide, outDir>>
    /\ UNCHANGED <<r_cur, r_open, r_log>>
    /\ UNCHANGED <<call, archive, sidecar, tampered, prev, outFault>>
    /\ UNCHANGED backupVars
    /\ UNCHANGED cleanupVars

\* a computeFileHash that reads every kind of source
unsupportedSource_none(kind) == FALSE

\* restore.ts 106-108: filePath.startsWith("s3") throws
\* "Cannot compute hash for S3 files"
unsupportedSource(kind) == kind = "s3"

\* restore.ts 105-124: the digest restore computes over the source file
computeFileHash(key, bytes) == digestHex(hmacSha256(key, bytes))

\* restore.ts 133: the sidecar's text, trimmed: the whitespace around the
\* hex digits is gone, their case is kept
Trim(side) == [digest |-> side.hex, upper |-> side.upper]

verifyChecksumFile_accepts(side, computedHash) == "ok"

verifyChecksumFile_requiresSidecar(side, computedHash) ==
    IF computedHash # Trim(side) THEN "ChecksumMismatch" ELSE "ok"

\* restore.ts 126-137
verifyChecksumFile(side, computedHash) ==
    IF ~side.exists THEN "ok"
    ELSE IF computedHash # Trim(side) THEN "ChecksumMismatch"
    ELSE "ok"

\* restore.ts 49-52
restore_verify ==
    /\ r_pc = "verify"
    /\ r_pc' = "done"
    /\ IF unsupportedSource(call.outs[r_arg.source].kind)
       THEN /\ r_res' = "S3Hash"
            /\ UNCHANGED r_sawSide
       ELSE /\ r_res' = verifyChecksumFile(sidecar[r_arg.source],
                           computeFileHash(r_arg.key, archive[r_arg.source].bytes))
            /\ r_sawSide' = sidecar[r_arg.source].exists
    /\ UNCHANGED <<r_arg, r_iv, r_buf, r_rest, r_todo, r_tarOk, outDir>>
    /\ UNCHANGED <<r_cur, r_open, r_log>>
    /\ UNCHANGED <<call, archive, sidecar, tampered, prev, outFault>>
    /\ UNCHANGED backupVars
    /\ UNCHANGED cleanupVars

RestoreNext ==
    \/ /\ r_pc = "idle" /\ BackupOver
       /\ \E src \in 1..N :
             \E key \in Keys, comp \in CompressionChoices, verify \in BOOLEAN,
                n \in FirstLens(archive[src].bytes) :
                restore_start(src, key, comp, verify, n)
    \/ extractFiles
    \/ extractFiles_entry
    \/ extractFiles_entryEnd
    \/ extractFiles_finish
    \/ restore_verify

\* ------------------------------------------------------- the environment
\* somebody removes a sidecar between backup and restore
DeleteSidecar(i) ==
    /\ BackupOver /\ r_pc = "idle"
    /\ sidecar[i].exists
    /\ sidecar' = [sidecar EXCEPT ![i] = NoSidecar]
    /\ UNCHANGED <<call, archive, tampered, prev, outFault>>
    /\ UNCHANGED backupVars
    /\ UNCHANGED restoreVars
    /\ UNCHANGED cleanupVars

\* one byte of one persisted archive changes between backup and restore
Tamper(i, pos, v) ==
    /\ BackupOver /\ r_pc = "idle"
    /\ tampered = {}
    /\ archive[i].exists /\ pos \in 1..Len(archive[i].bytes)
    /\ archive[i].bytes[pos] # v
    /\ archive' = [archive EXCEPT ![i].bytes[pos] = v]
    /\ tampered' = {i}
    /\ UNCHANGED <<prev, outFault>>
    /\ UNCHANGED <<call, sidecar>>
    /\ UNCHANGED backupVars
    /\ UNCHANGED restoreVars
    /\ UNCHANGED cleanupVars

Next ==
    \/ BackupNext
    \/ RestoreNext
    \/ \E i \in Dests : DeleteSidecar(i)

Spec == Init /\ [][Next]_vars

\* the failures of the file system under restore's output directory: the
\* parent directory of one entry cannot be made, or its file not written
OutFaults == {[op |-> o, name |-> p] : o \in {"mkdir", "end"}, p \in Paths}

\* backup of two files and restore into a directory where one entry fails
InitExtract ==
    /\ call \in [entries : {<<[name |-> "a.txt", data |-> <<1>>]>>,
                            <<[name |-> "a.txt", data |-> <<1>>],
                              [name |-> "b.txt", data |-> <<0>>]>>},
                 key : {[len |-> 32, id |-> 2]}, enc : {"aes-256-ctr"},
                 comp : CompressionChoices, iv : IVs,
                 outs : {<<LocalOk>>}]
    /\ prev = NoPrev
    /\ outFault \in OutFaults
    /\ InitBackupState /\ InitRestoreState
    /\ dir = {} /\ undeletable = {} /\ InitCleanupState

SpecExtract == InitExtract /\ [][Next]_vars

\* the whitespace somebody may put around the digest of a sidecar
Whitespace == {"", " ", "\n"}

\* somebody rewrites a sidecar between backup and restore: it names the
\* digest backup wrote or the one restore computes with the backup's key,
\* in lower-case or upper-case hex, with whitespace around it
RewriteSidecar(i, d, upper, lead, tail) ==
    /\ BackupOver /\ r_pc = "idle"
    /\ archive[i].exists /\ sidecar[i].exists
    /\ sidecar[i] = [exists |-> TRUE, hex |-> hashOut, upper |-> FALSE,
                     lead |-> "", tail |-> "\n"]
    /\ sidecar' = [sidecar EXCEPT ![i] =
                     [exists |-> TRUE, hex |-> d, upper |-> upper,
                      lead |-> lead, tail |-> tail]]
    /\ sidecar'[i] # sidecar[i]
    /\ UNCHANGED <<call, archive, tampered, prev, outFault>>
    /\ UNCHANGED backupVars
    /\ UNCHANGED restoreVars
    /\ UNCHANGED cleanupVars

NextSidecar ==
    \/ BackupNext
    \/ RestoreNext
    \/ \E i \in 1..N, upper \in BOOLEAN, lead \in Whitespace, tail \in Whitespace :
          \E d \in {hashOut, hmacSha256(call.key, archive[i].bytes)} :
              RewriteSidecar(i, d, upper, lead, tail)

\* backup and restore of a few archives with one byte changed in between
InitTamper ==
    /\ call \in [entries : {<<[name |-> "a.txt", data |-> <<1>>]>>,
                            <<[name |-> "b.txt", data |-> <<>>],
                              [name |-> "a.txt", data |-> <<0>>]>>},
                 key : {[len |-> 32, id |-> 2]}, enc : {"aes-256-ctr"},
                 comp : CompressionChoices, iv : IVs,
                 outs : {<<LocalOk, S3Ok>>}]
    /\ InitState
    /\ dir = {} /\ undeletable = {} /\ InitCleanupState

\* backup of one file to one local destination
InitSidecar ==
    /\ call \in [entries : {<<[name |-> "a.txt", data |-> <<1>>]>>},
                 key : {[len |-> 32, id |-> 2]}, enc : {"aes-256-ctr"},
                 comp : {"zstd"}, iv : IVs, outs : {<<LocalOk>>}]
    /\ InitState
    /\ dir = {} /\ undeletable = {} /\ InitCleanupState

\* backup, a sidecar rewritten by hand, restore
SpecSidecar == InitSidecar /\ [][NextSidecar]_vars

NextTamper ==
    \/ BackupNext
    \/ RestoreNext
    \/ /\ BackupOver /\ r_pc = "idle" /\ tampered = {}
       /\ \E i \in 1..N :
             \E pos \in 1..Len(archive[i].bytes), v \in Byte : Tamper(i, pos, v)

SpecTamper == InitTamper /\ [][NextTamper]_vars

\* a persisted archive is cut to its first len bytes between backup and
\* restore
TruncLens == {0, 1, IV_SIZE - 1, IV_SIZE, IV_SIZE + 1}

Truncate(i, len) ==
    /\ BackupOver /\ r_pc = "idle"
    /\ tampered = {}
    /\ archive[i].exists /\ len < Len(archive[i].bytes)
    /\ archive' = [archive EXCEPT ![i].bytes = Take(@, len)]
    /\ tampered' = {i}
    /\ UNCHANGED <<prev, outFault>>
    /\ UNCHANGED <<call, sidecar>>
    /\ UNCHANGED backupVars
    /\ UNCHANGED restoreVars
    /\ UNCHANGED cleanupVars

NextTruncate ==
    \/ BackupNext
    \/ RestoreNext
    \/ /\ BackupOver /\ r_pc = "idle" /\ tampered = {}
       /\ \E i \in 1..N, len \in TruncLens : Truncate(i, len)

SpecTruncate == InitTamper /\ [][NextTruncate]_vars

\* --------------------------------------------------------------- cleanup
\* A name at a destination.  form "stamped" is backup_<ts>.tar.<alg>.crypt,
\* form "plain" is backup.tar.<alg>.crypt, form "dotless" is
\* backup_<ts>-tar.<alg>.crypt, form "other" is anything else;
\* sha marks the name with ".sha256" appended.  A timestamp is a string of
\* digits, <<>> the empty string.
Timestamps == {<<>>, <<9>>, <<1, 0>>, <<1, 1>>, <<1, 2>>}

StampedNames ==
    [form : {"stamped"}, ts : Timestamps, alg : {"zstd"}, sha : {FALSE}]
        \cup {[form |-> "stamped", ts |-> <<1, 0>>, alg |-> "gzip", sha |-> FALSE]}

checksumPath(file) == [file EXCEPT !.sha = TRUE]

\* names cleanup has no business with, present at every destination
Bystanders ==
    {[form |-> "plain", ts |-> <<>>, alg |-> "zstd", sha |-> FALSE],
     [form |-> "plain", ts |-> <<>>, alg |-> "zstd", sha |-> TRUE],
     [form |-> "other", ts |-> <<>>, alg |-> "", sha |-> FALSE]}

\* the pattern backup_*.tar.<alg>.crypt read as the glob it is written as
backupPattern(file, compressionAlgorithm) ==
    /\ file.form = "stamped"
    /\ file.alg = compressionAlgorithm
    /\ ~file.sha

\* new RegExp("^backup_.*.tar.<alg>.crypt$").test(file): only the * of the
\* pattern is rewritten, so each of its dots matches any character
Matches(file, compressionAlgorithm) ==
    /\ file.form \in {"stamped", "dotless"}
    /\ file.alg = compressionAlgorithm
    /\ ~file.sha

NoTimestamp == <<>>

\* filename.match(/^backup_(.+?)\.tar\./): the group takes one character at
\* least, so an empty timestamp gives no match
extractTimestamp(file) ==
    IF file.form = "stamped" /\ file.ts # <<>> THEN file.ts ELSE NoTimestamp

\* a.localeCompare(b) on strings of digits: -1, 0 or 1
RECURSIVE localeCompare(_, _)
localeCompare(a, b) ==
    IF a = <<>> /\ b = <<>> THEN 0
    ELSE IF a = <<>> THEN -1
    ELSE IF b = <<>> THEN 1
    ELSE IF Head(a) < Head(b) THEN -1
    ELSE IF Head(a) > Head(b) THEN 1
    ELSE localeCompare(Tail(a), Tail(b))

compare_ascending(a, b) ==
    LET timestampA == extractTimestamp(a)
        timestampB == extractTimestamp(b)
    IN  IF timestampA = NoTimestamp \/ timestampB = NoTimestamp THEN 0
        ELSE localeCompare(timestampA, timestampB)

\* the comparator handed to backupFiles.sort
compare(a, b) ==
    LET timestampA == extractTimestamp(a)
        timestampB == extractTimestamp(b)
    IN  IF timestampA = NoTimestamp \/ timestampB = NoTimestamp THEN 0
        ELSE localeCompare(timestampB, timestampA)

\* Array.prototype.sort is stable; for the short arrays here the engine
\* inserts each element behind the last one that does not compare greater
InsertSorted(sorted, x) ==
    LET notAfter == {j \in 1..Len(sorted) : compare(sorted[j], x) <= 0}
        k == IF notAfter = {} THEN 0
             ELSE CHOOSE j \in notAfter : \A i \in notAfter : i <= j
    IN  Take(sorted, k) \o <<x>> \o Drop(sorted, k)

RECURSIVE sortFrom(_, _)
sortFrom(sorted, rest) ==
    IF rest = <<>> THEN sorted
    ELSE sortFrom(InsertSorted(sorted, Head(rest)), Tail(rest))

sort(files) == sortFrom(<<>>, files)

\* Array.prototype.slice(start): a negative start counts from the end
slice(files, start) ==
    LET from == IF start < 0
                THEN (IF Len(files) + start < 0 THEN 0 ELSE Len(files) + start)
                ELSE (IF start > Len(files) THEN Len(files) ELSE start)
    IN  Drop(files, from)

\* the orders in which a listing can return the names of a set
Orders(S) ==
    {s \in [1..Cardinality(S) -> S] :
        \A i, j \in 1..Cardinality(S) : i # j => s[i] # s[j]}

backupFiles(names, compressionAlgorithm) ==
    {f \in names : Matches(f, compressionAlgorithm)}

\* cleanupLocalBackups 345-356: nothing when there are no more files than
\* count, else what slice(count) leaves of the sorted files
localFilesToDelete(files, count) ==
    IF Len(files) <= count THEN <<>> ELSE slice(sort(files), count)

\* an object key under the list prefix of the destination URL
ListPrefix == "backups/"

S3Key(name) == [prefix |-> ListPrefix, name |-> name]

\* key.split("/").pop()
keyFilename(key) == key.name

\* `${fileKey}.sha256`
checksumKey(fileKey) == [fileKey EXCEPT !.name = checksumPath(@)]

\* cleanupS3Backups 375-381: the listed keys whose file name matches
backupKeys(names, compressionAlgorithm) ==
    {k \in {S3Key(f) : f \in names} : Matches(keyFilename(k), compressionAlgorithm)}

\* the comparator of cleanupS3Backups, on the keys' file names
compareS3(a, b) ==
    LET timestampA == extractTimestamp(keyFilename(a))
        timestampB == extractTimestamp(keyFilename(b))
    IN  IF timestampA = NoTimestamp \/ timestampB = NoTimestamp THEN 0
        ELSE localeCompare(timestampB, timestampA)

InsertSortedS3(sorted, x) ==
    LET notAfter == {j \in 1..Len(sorted) : compareS3(sorted[j], x) <= 0}
        k == IF notAfter = {} THEN 0
             ELSE CHOOSE j \in notAfter : \A i \in notAfter : i <= j
    IN  Take(sorted, k) \o <<x>> \o Drop(sorted, k)

RECURSIVE sortFromS3(_, _)
sortFromS3(sorted, rest) ==
    IF rest = <<>> THEN sorted
    ELSE sortFromS3(InsertSortedS3(sorted, Head(rest)), Tail(rest))

sortS3_unsorted(keys) == keys

sortS3(keys) == sortFromS3(<<>>, keys)

\* cleanupS3Backups 383-396
s3FilesToDelete(keys, count) ==
    IF Len(keys) <= count THEN <<>> ELSE slice(sortS3(keys), count)

Counts == (-1)..MaxKeep

\* destinations: up to MaxArchives stamped names, each with its sidecar but
\* for one at most; one name at most refuses to be deleted
Destinations ==
    {A \cup {checksumPath(f) : f \in A \ missing} \cup Bystanders :
        A \in {B \in SUBSET StampedNames : Cardinality(B) <= MaxArchives},
        missing \in {C \in SUBSET StampedNames : Cardinality(C) <= 1}}

InitCleanup ==
    /\ dir \in Destinations
    /\ undeletable \in {U \in SUBSET StampedNames : Cardinality(U) <= 1}
    /\ undeletable \subseteq dir
    /\ InitCleanupState
    /\ call = [entries |-> <<>>, key |-> [len |-> 32, id |-> 2],
               enc |-> "aes-256-ctr", comp |-> "zstd",
               iv |-> CHOOSE iv \in IVs : TRUE, outs |-> <<LocalOk>>]
    /\ InitState

windowDisabled_never(timestampFormat) == FALSE

\* timestampFormat === "none", the test cleanupOldBackups opens with
windowDisabled(timestampFormat) == timestampFormat = "none"

\* cleanupOldBackups up to the first await that deletes: the rejection of
\* "none", then cleanupLocalBackups or cleanupS3Backups with the listing,
\* the filter, the sort and the slice
cleanupOldBackups(kind, count, timestampFormat, compressionAlgorithm) ==
    /\ cl_pc = "idle"
    /\ cli_pc = "idle"
    /\ cl_arg' = [kind |-> kind, count |-> count, fmt |-> timestampFormat,
                  alg |-> compressionAlgorithm]
    /\ cl_dir0' = dir
    /\ IF windowDisabled(timestampFormat)
       THEN /\ cl_pc' = "done"
            /\ cl_res' = "ConfigError"
            /\ UNCHANGED <<cl_listed, cl_del>>
       ELSE /\ cl_listed' = TRUE
            /\ \E files \in
                    IF kind = "s3"
                    THEN Orders(backupKeys(dir, compressionAlgorithm))
                    ELSE Orders(backupFiles(dir, compressionAlgorithm)) :
                  LET filesToDelete ==
                          IF kind = "s3" THEN s3FilesToDelete(files, count)
                          ELSE localFilesToDelete(files, count)
                  IN  IF filesToDelete = <<>>
                      THEN /\ cl_pc' = "done"
                           /\ cl_res' = "ok"
                           /\ UNCHANGED cl_del
                      ELSE /\ cl_pc' = "unlink"
                           /\ cl_del' = filesToDelete
                           /\ UNCHANGED cl_res
    /\ UNCHANGED <<dir, undeletable, cl_step, cl_caught>>
    /\ UNCHANGED <<cli_arg, cli_pc, cli_res, cli_wrote, cli_runs,
      o_runs, o_files, o_side>>
    /\ UNCHANGED <<call, archive, sidecar, tampered, prev, outFault>>
    /\ UNCHANGED backupVars
    /\ UNCHANGED restoreVars

catchUnlink_rethrows(ok, next) == IF ok THEN next ELSE "failed"

\* .catch(() => {}) on every unlink / S3Client.delete: a rejection is
\* swallowed and the loop goes on
catchUnlink(ok, next) == next

\* one unlink / S3Client.delete of the loop over filesToDelete, with its
\* .catch(() => {})
unlink ==
    /\ cl_pc = "unlink"
    /\ LET file == Head(cl_del)
           target ==
               IF cl_arg.kind = "s3"
               THEN keyFilename(IF cl_step = "file" THEN file ELSE checksumKey(file))
               ELSE (IF cl_step = "file" THEN file ELSE checksumPath(file))
           ok == target \in dir /\ target \notin undeletable
           last == cl_step = "side" /\ Tail(cl_del) = <<>>
       IN  /\ IF ok
              THEN /\ dir' = dir \ {target}
                   /\ UNCHANGED cl_caught
              ELSE /\ cl_caught' = cl_caught \cup {target}
                   /\ UNCHANGED dir
           /\ IF cl_step = "file"
              THEN cl_step' = "side" /\ UNCHANGED cl_del
              ELSE cl_step' = "file" /\ cl_del' = Tail(cl_del)
           /\ cl_pc' = catchUnlink(ok, IF last THEN "done" ELSE "unlink")
           /\ cl_res' = CASE cl_pc' = "done" -> "ok"
                          [] cl_pc' = "failed" -> "UnlinkError"
                          [] OTHER -> cl_res
    /\ UNCHANGED <<undeletable, cl_dir0, cl_arg, cl_listed>>
    /\ UNCHANGED <<cli_arg, cli_pc, cli_res, cli_wrote, cli_runs,
      o_runs, o_files, o_side>>
    /\ UNCHANGED <<call, archive, sidecar, tampered, prev, outFault>>
    /\ UNCHANGED backupVars
    /\ UNCHANGED restoreVars

\* ------------------------------------------------------------------- CLI
\* the values of --count: not given, empty, or a string parseInt reads
CountOptions == {"unset", "", "0", "2", "x"}

\* the same with a negative number
CountStrings == CountOptions \cup {"-1"}

\* opts.count ? parseInt(opts.count, 10) : undefined
backupCount(opt) ==
    CASE opt \in {"unset", ""} -> [def |-> FALSE, nan |-> FALSE, val |-> 0]
      [] opt = "0" -> [def |-> TRUE, nan |-> FALSE, val |-> 0]
      [] opt = "2" -> [def |-> TRUE, nan |-> FALSE, val |-> 2]
      [] opt = "-1" -> [def |-> TRUE, nan |-> FALSE, val |-> -1]
      [] OTHER -> [def |-> TRUE, nan |-> TRUE, val |-> 0]

\* the instants Date.now() can give a backup, in seconds since the epoch;
\* the decimal width of the count changes within the range
Now == 9..11

\* Number.prototype.toString(): the decimal digits, without padding
RECURSIVE toString(_)
toString(n) == IF n < 10 THEN <<n>> ELSE Append(toString(n \div 10), n % 10)

\* padStart(2, "0")
padStart(digits) == IF Len(digits) < 2 THEN <<0>> \o digits ELSE digits

\* the instant at which the local zone ends daylight saving time, and the
\* seconds its clocks are set back then
DstEnd == 10
DstShift == 2

\* getFullYear() ... getSeconds(): the fields of the local wall clock
LocalTime(t) == IF t < DstEnd THEN t + DstShift ELSE t

\* backup-restore.spec.ts 198-208
createTimestamp(format, t) ==
    IF format = "none" THEN <<>>
    ELSE IF format = "unix" THEN toString(t)
    ELSE padStart(toString(LocalTime(t)))

createBackupFilename(timestampFormat, compressionAlgorithm, timestamp) ==
    IF timestampFormat = "none"
    THEN [form |-> "plain", ts |-> <<>>, alg |-> compressionAlgorithm,
          sha |-> FALSE]
    ELSE [form |-> "stamped", ts |-> timestamp, alg |-> compressionAlgorithm,
          sha |-> FALSE]

\* the backup command up to the definition of executeBackup
cli_backup(count, timestampFormat, compressionAlgorithm) ==
    /\ cli_pc = "idle"
    /\ cl_pc = "idle"
    /\ cli_arg' = [count |-> count, fmt |-> timestampFormat,
                   alg |-> compressionAlgorithm]
    /\ IF backupCount(count).def /\ timestampFormat = "none"
       THEN cli_pc' = "done" /\ cli_res' = "ConfigError"
       ELSE cli_pc' = "executeBackup" /\ UNCHANGED cli_res
    /\ UNCHANGED <<dir, undeletable, cli_wrote, cli_runs, o_runs, o_files, o_side>>
    /\ UNCHANGED <<cl_dir0, cl_arg, cl_pc, cl_res, cl_listed, cl_del, cl_step,
                   cl_caught>>
    /\ UNCHANGED <<call, archive, sidecar, tampered, prev, outFault>>
    /\ UNCHANGED backupVars
    /\ UNCHANGED restoreVars

\* executeBackup: backup() writes the archive and its sidecar under the new
\* name; the call of cleanupOldBackups that follows hands one object to a
\* function of four positional parameters, and destination.startsWith
\* throws a TypeError
executeBackup ==
    /\ cli_pc = "executeBackup"
    /\ \E t \in Now :
          LET filename == createBackupFilename(cli_arg.fmt, cli_arg.alg,
                                               createTimestamp(cli_arg.fmt, t))
          IN  /\ IF cli_runs = <<>> THEN TRUE ELSE cli_runs[Len(cli_runs)].t < t
              /\ dir' = dir \cup {filename, checksumPath(filename)}
              /\ cli_runs' = Append(cli_runs, [t |-> t, name |-> filename])
    /\ cli_wrote' = TRUE
    /\ cli_pc' = "done"
    /\ cli_res' = IF backupCount(cli_arg.count).def THEN "TypeError" ELSE "ok"
    /\ UNCHANGED <<undeletable, cli_arg, o_runs, o_files, o_side>>
    /\ UNCHANGED <<cl_dir0, cl_arg, cl_pc, cl_res, cl_listed, cl_del, cl_step,
                   cl_caught>>
    /\ UNCHANGED <<call, archive, sidecar, tampered, prev, outFault>>
    /\ UNCHANGED backupVars
    /\ UNCHANGED restoreVars

\* backup-restore.spec.ts 161-167: with --schedule, cron calls
\* executeBackup again at every instant the pattern names
cron ==
    /\ cli_pc = "done" /\ cli_wrote
    /\ Len(cli_runs) < MaxRuns
    /\ cli_pc' = "executeBackup"
    /\ UNCHANGED <<dir, undeletable, cli_arg, cli_res, cli_wrote, cli_runs,
      o_runs, o_files, o_side>>
    /\ UNCHANGED <<cl_dir0, cl_arg, cl_pc, cl_res, cl_listed, cl_del, cl_step,
                   cl_caught>>
    /\ UNCHANGED <<call, archive, sidecar, tampered, prev, outFault>>
    /\ UNCHANGED backupVars
    /\ UNCHANGED restoreVars

NextCleanup ==
    \/ \E kind \in {"local", "s3"}, count \in Counts,
          timestampFormat \in timestampFormats,
          compressionAlgorithm \in CompressionChoices :
             cleanupOldBackups(kind, count, timestampFormat,
                               compressionAlgorithm)
    \/ unlink
    \/ \E count \in CountOptions, timestampFormat \in timestampFormats,
          compressionAlgorithm \in CompressionChoices :
             cli_backup(count, timestampFormat, compressionAlgorithm)
    \/ executeBackup

SpecCleanup == InitCleanup /\ [][NextCleanup]_vars

\* a file that is no backup_*.tar.zstd.crypt, with a sidecar of its own
Dotless == [form |-> "dotless", ts |-> <<9>>, alg |-> "zstd", sha |-> FALSE]

OtherAlgorithm == [form |-> "stamped", ts |-> <<1, 0>>, alg |-> "gzip", sha |-> FALSE]

\* destinations that hold, beside up to two zstd archives with their
\* sidecars, an archive of another algorithm, the untimestamped archive, an
\* unrelated file and the dotless file
MixedDestinations ==
    {A \cup {checksumPath(f) : f \in A} \cup Bystanders
       \cup {OtherAlgorithm, checksumPath(OtherAlgorithm),
             Dotless, checksumPath(Dotless)} :
        A \in {B \in SUBSET {f \in StampedNames : f.alg = "zstd" /\ f.ts # <<>>} :
                  Cardinality(B) <= 2}}

InitMixed ==
    /\ dir \in MixedDestinations
    /\ undeletable = {}
    /\ InitCleanupState
    /\ call = [entries |-> <<>>, key |-> [len |-> 32, id |-> 2],
               enc |-> "aes-256-ctr", comp |-> "zstd",
               iv |-> CHOOSE iv \in IVs : TRUE, outs |-> <<LocalOk>>]
    /\ InitState

\* cleanup at destinations that hold other files than archives
SpecMixed == InitMixed /\ [][NextCleanup]_vars

\* ------------------------------------------- runs of executeBackup that overlap
\* f with the value v at k
Put(f, k, v) == [n \in DOMAIN f \cup {k} |-> IF n = k THEN v ELSE f[n]]

\* an archive file just opened for writing: neither of its two chunks written
Truncated == <<0, 0>>

\* backup-restore.spec.ts 120-129, backup.ts 38 and 93-96: cron calls
\* executeBackup while earlier runs may still be writing; the run takes its
\* file name from the clock and prepareOutputs opens the file's writer,
\* which empties a file of that name
run_start(r, t) ==
    /\ cli_pc = "executeBackup"
    /\ o_runs[r].pc = "idle"
    /\ IF r = 1 THEN TRUE
       ELSE o_runs[r - 1].pc # "idle" /\ o_runs[r - 1].t < t
    /\ LET filename == createBackupFilename(cli_arg.fmt, cli_arg.alg,
                                            createTimestamp(cli_arg.fmt, t))
       IN  /\ o_runs' = [o_runs EXCEPT ![r] =
                            [pc |-> "write1", t |-> t, name |-> filename,
                             res |-> "none"]]
           /\ o_files' = Put(o_files, filename, Truncated)
    /\ UNCHANGED <<dir, undeletable, cli_arg, cli_pc, cli_res, cli_wrote,
                   cli_runs, o_side>>
    /\ UNCHANGED <<cl_dir0, cl_arg, cl_pc, cl_res, cl_listed, cl_del, cl_step,
                   cl_caught>>
    /\ UNCHANGED <<call, archive, sidecar, tampered, prev, outFault>>
    /\ UNCHANGED backupVars
    /\ UNCHANGED restoreVars

\* backup.ts 73-82: the run's sink writes the next chunk of the stream at
\* the sink's own offset in the file
run_write(r) ==
    /\ o_runs[r].pc \in {"write1", "write2"}
    /\ LET k == IF o_runs[r].pc = "write1" THEN 1 ELSE 2
       IN  o_files' = [o_files EXCEPT ![o_runs[r].name][k] = r]
    /\ o_runs' = [o_runs EXCEPT ![r].pc =
                     IF @ = "write1" THEN "write2" ELSE "sidecar"]
    /\ UNCHANGED <<dir, undeletable, cli_arg, cli_pc, cli_res, cli_wrote,
                   cli_runs, o_side>>
    /\ UNCHANGED <<cl_dir0, cl_arg, cl_pc, cl_res, cl_listed, cl_del, cl_step,
                   cl_caught>>
    /\ UNCHANGED <<call, archive, sidecar, tampered, prev, outFault>>
    /\ UNCHANGED backupVars
    /\ UNCHANGED restoreVars

\* backup.ts 42-45, backup-restore.spec.ts 131-145: the run writes its
\* .sha256 file, backup() returns and the run reports "Backup completed"
run_sidecar(r) ==
    /\ o_runs[r].pc = "sidecar"
    /\ o_side' = Put(o_side, o_runs[r].name, r)
    /\ o_runs' = [o_runs EXCEPT ![r].pc =
                     IF backupCount(cli_arg.count).def THEN "cleanup" ELSE "done",
                                 ![r].res =
                     IF backupCount(cli_arg.count).def THEN "none" ELSE "ok"]
    /\ UNCHANGED <<dir, undeletable, cli_arg, cli_pc, cli_res, cli_wrote,
                   cli_runs, o_files>>
    /\ UNCHANGED <<cl_dir0, cl_arg, cl_pc, cl_res, cl_listed, cl_del, cl_step,
                   cl_caught>>
    /\ UNCHANGED <<call, archive, sidecar, tampered, prev, outFault>>
    /\ UNCHANGED backupVars
    /\ UNCHANGED restoreVars

\* backup-restore.spec.ts 149-158: the run calls cleanupOldBackups with one
\* object for four positional parameters; destination.startsWith throws a
\* TypeError before anything is listed or deleted
run_cleanup(r) ==
    /\ o_runs[r].pc = "cleanup"
    /\ o_runs' = [o_runs EXCEPT ![r].pc = "done", ![r].res = "TypeError"]
    /\ UNCHANGED <<dir, undeletable, cli_arg, cli_pc, cli_res, cli_wrote,
                   cli_runs, o_files, o_side>>
    /\ UNCHANGED <<cl_dir0, cl_arg, cl_pc, cl_res, cl_listed, cl_del, cl_step,
                   cl_caught>>
    /\ UNCHANGED <<call, archive, sidecar, tampered, prev, outFault>>
    /\ UNCHANGED backupVars
    /\ UNCHANGED restoreVars

NextOverlap ==
    \/ \E count \in CountOptions, timestampFormat \in timestampFormats,
          compressionAlgorithm \in CompressionChoices :
             cli_backup(count, timestampFormat, compressionAlgorithm)
    \/ \E r \in Runs, t \in Now : run_start(r, t)
    \/ \E r \in Runs : run_write(r)
    \/ \E r \in Runs : run_sidecar(r)
    \/ \E r \in Runs : run_cleanup(r)

\* the scheduled backup command at a destination that starts empty
InitSchedule ==
    /\ dir = Bystanders /\ undeletable = {}
    /\ InitCleanupState
    /\ call = [entries |-> <<>>, key |-> [len |-> 32, id |-> 2],
               enc |-> "aes-256-ctr", comp |-> "zstd",
               iv |-> CHOOSE iv \in IVs : TRUE, outs |-> <<LocalOk>>]
    /\ InitState

NextSchedule ==
    \/ \E count \in CountOptions, timestampFormat \in timestampFormats,
          compressionAlgorithm \in CompressionChoices :
             cli_backup(count, timestampFormat, compressionAlgorithm)
    \/ executeBackup
    \/ cron

SpecSchedule == InitSchedule /\ [][NextSchedule]_vars

\* scheduled runs of the backup command that overlap
SpecOverlap == InitSchedule /\ [][NextOverlap]_vars

\* ================================================================ claims
RestoreOver == r_pc \in {"done", "stuck"}

Src == r_arg.source

SrcLocal == call.outs[Src].kind = "local"

\* restore was given the key and the algorithms of the backup
SameSettings == r_arg.key = call.key /\ r_arg.comp = call.comp

\* the archive bytes a backup of the call's files must produce
ExpectedArchive ==
    call.iv \o cipherUpdate(call.key, call.iv,
                            compress(call.comp, tarPack(call.entries)))

\* the fan-out loop of writeToMultipleSinks has read the stream to its end
StreamEnded ==
    \/ b_pc \in {"end", "hash", "sidecar", "done"}
    \/ b_pc = "failed" /\ b_err \in {"End", "Sidecar"}

Unhealthy == {i \in 1..N : ~Healthy(call.outs[i])}

\* restore ended before checksum verification was reached
FailedEarly == r_res \in {"TooSmall", "KeyLength", "Uncaught", "ExtractError"}

\* C1: backup to one or more destinations followed by restore (default
\* options, same key and algorithms) from one of them completes without
\* error and reproduces the input files, paths and content.  Stated here
\* for a local source whose first chunk holds the IV.
C1_RoundTrip ==
    (/\ RestoreOver /\ b_pc = "done"
     /\ SameSettings /\ r_arg.verify
     /\ SrcLocal /\ ~sinks[Src].failed /\ sidecar[Src].exists
     /\ r_res # "TooSmall")
    => /\ r_res = "ok"
       /\ outDir.files = WriteEntries(NoFiles, call.entries)

\* C2: for an archive and a sidecar written by backup and not modified
\* since, restore with verifyChecksum = true never reports a checksum
\* mismatch.
C2_NoFalseMismatch ==
    (/\ RestoreOver /\ b_pc = "done"
     /\ ~sinks[Src].failed /\ Src \notin tampered)
    => r_res # "ChecksumMismatch"

\* C3 as claimed: with one byte of the archive changed and the sidecar
\* left as written, restore with verifyChecksum = true (same key and
\* algorithms, local source, IV in the first chunk) reports a checksum
\* mismatch.
C3_Original ==
    (/\ RestoreOver /\ r_arg.verify
     /\ Src \in tampered /\ sidecar[Src].exists
     /\ SrcLocal /\ SameSettings /\ r_res # "TooSmall")
    => r_res = "ChecksumMismatch"

\* C3 amended: with one byte of the archive changed and the sidecar left
\* as written, restore with verifyChecksum = true never returns success;
\* it reports a checksum mismatch whenever a local source got as far as
\* verification, and otherwise has failed before (size check, key check,
\* decompression or tar error).
C3_TamperNeverSucceeds ==
    (/\ RestoreOver /\ r_arg.verify
     /\ Src \in tampered /\ sidecar[Src].exists)
    => /\ r_res # "ok"
       /\ (SrcLocal /\ ~FailedEarly) => r_res = "ChecksumMismatch"

C3_Witness ==
    /\ RestoreOver /\ r_arg.verify /\ SameSettings
    /\ Src \in tampered /\ sidecar[Src].exists
    /\ r_res = "ChecksumMismatch"
    /\ outDir.files # NoFiles

C5_ArchiveLayout ==
    (\E i \in 1..N : sinks[i].ended) =>
        LET body == cipherUpdate(call.key, call.iv,
                                 compress(call.comp, tarPack(call.entries)))
        IN  \A i \in 1..N :
                (sinks[i].ended /\ ~sinks[i].failed)
                => /\ archive[i].exists
                   /\ Len(call.iv) = IV_SIZE
                   /\ Take(archive[i].bytes, IV_SIZE) = call.iv
                   /\ Drop(archive[i].bytes, IV_SIZE) = body
                   /\ \A j \in 1..N :
                         (sinks[j].ended /\ ~sinks[j].failed)
                         => archive[j].bytes = archive[i].bytes

C5_Witness ==
    /\ b_pc = "done" /\ N >= 2
    /\ Len(call.entries) = 2
    /\ \A i \in 1..N : archive[i].bytes = ExpectedArchive

\* C6: the chunk sequence handed to each sink is at any moment a prefix of
\* the framed stream and, once the stream has ended, the whole stream.
C6_FanOutOrder ==
    PipelineBuilt =>
        LET st == Stream
        IN  \A i \in 1..N :
                /\ IsPrefix(sinks[i].handed, st)
                /\ StreamEnded => sinks[i].handed = st

C6_Witness ==
    /\ StreamEnded /\ N >= 2 /\ Len(Stream) >= 3
    /\ \E i \in 1..N : sinks[i].failed
    /\ \A i \in 1..N : sinks[i].handed = Stream

\* C7: a write or flush failure at one sink neither rejects the fan-out
\* loop nor stops delivery: every sink is handed every chunk, the stream is
\* read to its end and every sink whose writes succeed persists all of it.
C7_FailureIsolated ==
    /\ b_pc = "failed" => b_err \in {"KeyLength", "Mkdir", "End", "Sidecar"}
    /\ \A i, j \in 1..N : Len(sinks[i].handed) = Len(sinks[j].handed)
    /\ (StreamEnded /\ \E i \in 1..N : sinks[i].failed)
       => LET st == Stream
          IN  /\ teeDone /\ qFinal = <<>>
              /\ \A j \in 1..N :
                    /\ sinks[j].handed = st
                    /\ call.outs[j].write => archive[j].bytes = Flatten(st)

C7_Witness ==
    /\ StreamEnded /\ N >= 2
    /\ \E i, j \in 1..N :
          /\ sinks[i].failed /\ ~sinks[j].failed
          /\ archive[j].bytes = Flatten(Stream)
          /\ Len(archive[i].bytes) < Len(archive[j].bytes)

\* C8: with several destinations of which one is unwritable, backup
\* completes, every writable destination holds a complete archive (and its
\* sidecar), and the result identifies the destination that failed.
C8_PartialFailure ==
    (/\ BackupOver /\ N >= 2
     /\ KeyFits(call.enc, call.key)
     /\ Cardinality(Unhealthy) = 1)
    => /\ b_pc = "done"
       /\ \A j \in (1..N) \ Unhealthy :
             /\ archive[j].exists /\ archive[j].bytes = ExpectedArchive
             /\ sidecar[j].exists /\ sidecar[j].hex = sha256(ExpectedArchive)
       /\ failedDestinations = Unhealthy


CleanupOver == cl_pc = "done"

\* the archives cleanup was called for, as they were when it was called
Matching0 == backupFiles(cl_dir0, cl_arg.alg)

\* the min(N, m) of them with the largest timestamps, in the order of the
\* timestamp strings
Newest(keep) ==
    {f \in Matching0 :
        Cardinality({g \in Matching0 : localeCompare(g.ts, f.ts) > 0}) < keep}

\* every matching archive carries a timestamp, the keep-count is positive
\* and no name refuses to be deleted
RetentionCase ==
    /\ CleanupOver /\ cl_res = "ok"
    /\ cl_arg.count >= 1
    /\ \A f \in Matching0 : extractTimestamp(f) # NoTimestamp
    /\ undeletable = {}

\* C9: m matching archives with distinct well-formed timestamps and a
\* positive keep-count N: when cleanup is over, the min(N, m) archives with
\* the largest timestamps and their sidecars are still there, every other
\* matching archive and its sidecar is gone, nothing else has changed, and
\* the destination lists exactly min(N, m) matching archives.
C9_Retention ==
    RetentionCase =>
        LET keep == cl_arg.count
            m == Cardinality(Matching0)
            gone == Matching0 \ Newest(keep)
        IN  /\ dir = cl_dir0 \ (gone \cup {checksumPath(f) : f \in gone})
            /\ Cardinality(backupFiles(dir, cl_arg.alg))
                  = (IF keep < m THEN keep ELSE m)

C9_Witness ==
    /\ RetentionCase
    /\ cl_arg.count = 2
    /\ Cardinality(Matching0) = 3
    /\ Cardinality(backupFiles(dir, cl_arg.alg)) = 2
    /\ \E f \in Matching0 :
          /\ checksumPath(f) \in cl_dir0
          /\ f \notin dir /\ checksumPath(f) \notin dir

\* C10: cleanup called with timestamp format "none" ends with the
\* configuration error, for every keep-count, without having listed the
\* destination or deleted anything; the CLI's backup command with a
\* keep-count and timestamp format "none" ends with the configuration error
\* without having written a backup.
C10_NoneRejected ==
    /\ (cl_pc # "idle" /\ cl_arg.fmt = "none") =>
          /\ cl_pc = "done" /\ cl_res = "ConfigError"
          /\ ~cl_listed /\ cl_del = <<>> /\ cl_caught = {}
          /\ dir = cl_dir0
    /\ (cli_pc # "idle" /\ backupCount(cli_arg.count).def
                        /\ cli_arg.fmt = "none") =>
          /\ cli_pc = "done" /\ cli_res = "ConfigError"
          /\ ~cli_wrote

C10_Witness ==
    /\ cl_pc = "done" /\ cl_arg.fmt = "none" /\ cl_arg.count = 1
    /\ Cardinality(Matching0) = 3
    /\ cl_res = "ConfigError" /\ dir = cl_dir0

\* the source restore() was given is shorter than the IV
ShortSource == r_pc # "idle" /\ Len(archive[Src].bytes) < IV_SIZE

\* C11: restore of a source of fewer than 16 bytes, the empty source
\* included, ends with the size error, however the reader chunks it; no IV
\* was split off and no decipher created, nothing was decrypted or
\* extracted, and the output directory was not created.
C11_ShortSourceRejected ==
    ShortSource =>
        /\ r_pc = "done" /\ r_res = "TooSmall"
        /\ r_iv = <<>> /\ r_buf = <<>> /\ r_rest = <<>>
        /\ outDir = NoOut

C11_Witness ==
    /\ ShortSource /\ r_res = "TooSmall"
    /\ Len(archive[Src].bytes) = IV_SIZE - 1
    /\ KeyFits(r_arg.enc, r_arg.key)

\* the entries the tar extractor reads out of the source
SourceEntries ==
    tarExtract(decompress(r_arg.comp,
                          decipherUpdate(r_arg.key, r_iv,
                                         Drop(archive[Src].bytes, IV_SIZE))).data).entries

\* restore() has called computeFileHash
VerificationStarted ==
    \/ r_pc = "verify"
    \/ r_pc = "done" /\ r_res \in {"ChecksumMismatch", "S3Hash"}
    \/ r_pc = "done" /\ r_res = "ok" /\ r_arg.verify

SidecarDiffers ==
    /\ sidecar[Src].exists
    /\ Trim(sidecar[Src])
         # computeFileHash(r_arg.key, archive[Src].bytes)

\* C12: once verification has started, every entry has been extracted and
\* its file written; and when restore with verifyChecksum = true got
\* through extraction and the sidecar is there and differs from the
\* recomputed digest, restore ends with an error, never with success, and
\* the extracted files stay where they are.
C12_ExtractBeforeVerify ==
    /\ VerificationStarted =>
          /\ r_todo = <<>>
          /\ outDir.exists
          /\ outDir.files = WriteEntries(NoFiles, SourceEntries)
    /\ (r_pc = "done" /\ r_arg.verify /\ ~FailedEarly /\ SidecarDiffers) =>
          /\ r_res \in {"ChecksumMismatch", "S3Hash"}
          /\ outDir.files = WriteEntries(NoFiles, SourceEntries)

C12_Witness ==
    /\ r_pc = "done" /\ r_res = "ChecksumMismatch" /\ SidecarDiffers
    /\ Len(SourceEntries) = 2
    /\ DOMAIN outDir.files = Paths

\* C13: with two sinks or more, once the stream has ended and backup is
\* over, end() has been called on every sink (so every sink whose end() succeeds is finalized), and a
\* failing end() has not aborted the backup.
C13_EveryFinalized ==
    (BackupOver /\ StreamEnded /\ N >= 2) =>
        /\ \A i \in 1..N : call.outs[i].end => sinks[i].ended
        /\ b_err # "End"

\* the file names of a sequence of keys
KeyNames(keys) == [i \in 1..Len(keys) |-> keyFilename(keys[i])]

\* the keys of a sequence of file names
NameKeys(files) == [i \in 1..Len(files) |-> S3Key(files[i])]

\* what is left of the names after the deletions for filesToDelete, failed
\* ones apart
AfterDeleting(names, filesToDelete) ==
    names \ {t \in {filesToDelete[i] : i \in 1..Len(filesToDelete)}
                     \cup {checksumPath(filesToDelete[i]) : i \in 1..Len(filesToDelete)} :
                t \notin undeletable}

\* C14: for the same names at a destination, the same keep-count and the
\* same compression algorithm, and for every order of the listing, the
\* object-store cleanup selects the keys of exactly the files the local
\* cleanup selects, in the same order; and whichever of the two ran, the
\* destination ends as the local selection for some listing order leaves
\* it.
C14_SameSelection ==
    (cl_pc # "idle" /\ ~windowDisabled(cl_arg.fmt)) =>
        /\ \A files \in Orders(Matching0) :
              /\ NameKeys(files) \in Orders(backupKeys(cl_dir0, cl_arg.alg))
              /\ KeyNames(s3FilesToDelete(NameKeys(files), cl_arg.count))
                    = localFilesToDelete(files, cl_arg.count)
        /\ CleanupOver =>
              \E files \in Orders(Matching0) :
                  dir = AfterDeleting(cl_dir0,
                                      localFilesToDelete(files, cl_arg.count))

C14_Witness ==
    /\ CleanupOver /\ cl_arg.kind = "s3" /\ cl_arg.count = 1
    /\ Cardinality(Matching0) = 3
    /\ \E f \in Matching0 : extractTimestamp(f) = NoTimestamp
    /\ Cardinality(backupFiles(dir, cl_arg.alg)) = 1

\* the matching archives whose name yields a timestamp
WellFormed0 == {f \in Matching0 : extractTimestamp(f) # NoTimestamp}

\* those of them whose timestamp is among the keep largest
TopStamped(keep) ==
    {f \in WellFormed0 :
        Cardinality({g \in WellFormed0 : localeCompare(g.ts, f.ts) > 0}) < keep}

\* C15: whatever the listing order and whatever matching names without a
\* timestamp are at the destination, cleanup with a positive keep-count N
\* deletes no archive whose timestamp is among the N largest well-formed
\* timestamps.
C15_UnstampedNeverNewest ==
    (CleanupOver /\ cl_res = "ok" /\ cl_arg.count >= 1)
    => TopStamped(cl_arg.count) \subseteq dir

\* the names the deletion loop is run for: the selected files and their
\* sidecars
Targets(filesToDelete) ==
    {filesToDelete[i] : i \in 1..Len(filesToDelete)}
        \cup {checksumPath(filesToDelete[i]) : i \in 1..Len(filesToDelete)}

\* C16: cleanup never fails because of a deletion; when it is over, every
\* selected archive and every sidecar of one has had its deletion
\* attempted (it is gone, or its failed deletion was caught), and only
\* names whose deletion fails are still there.
C16_DeleteFailureIsolated ==
    /\ cl_pc # "failed" /\ cl_res # "UnlinkError"
    /\ (CleanupOver /\ ~windowDisabled(cl_arg.fmt)) =>
          /\ cl_res = "ok"
          /\ \E files \in Orders(Matching0) :
                LET targets == Targets(localFilesToDelete(files, cl_arg.count))
                IN  /\ (cl_dir0 \ dir) \cup cl_caught = targets
                    /\ targets \cap dir \subseteq undeletable

C16_Witness ==
    /\ CleanupOver /\ cl_res = "ok"
    /\ undeletable # {} /\ undeletable \subseteq (cl_caught \cap dir)
    /\ Cardinality(backupFiles(cl_dir0 \ dir, cl_arg.alg)) >= 2

\* C17: a sidecar that backup has written holds the hex digest, followed
\* by a newline, of exactly the bytes persisted in the archive next to it;
\* when one is written every sink has been finalized, and none is written
\* when the pipeline failed.
C17_SidecarMatchesArchive ==
    \A i \in 1..N :
        sidecar[i].exists =>
            /\ sidecar[i].hex = sha256(archive[i].bytes)
            /\ sidecar[i].tail = "\n"
            /\ \A j \in 1..N : sinks[j].ended
            /\ b_err \notin {"KeyLength", "Mkdir", "End"}

\* the key handed to backup() / restore() is not of the cipher's key size
BackupKeyMismatch == b_pc # "idle" /\ call.key.len # KeySize(call.enc)

RestoreKeyMismatch == r_pc # "idle" /\ r_arg.key.len # KeySize(r_arg.enc)

\* C18: backup called with a key of the wrong length fails with the
\* cipher's error and has created no destination directory, no archive and
\* no sidecar and opened no sink; restore called with such a key fails with
\* an error (the cipher's, or the size error for a short source) and has
\* not created the output directory.
C18_KeyLengthFailsFast ==
    /\ BackupKeyMismatch =>
          /\ b_pc = "failed" /\ b_err = "KeyLength"
          /\ made = {}
          /\ \A i \in Dests :
                ~archive[i].exists /\ ~sidecar[i].exists /\ sinks[i] = NoSink
    /\ RestoreKeyMismatch =>
          /\ r_pc = "done" /\ r_res \in {"KeyLength", "TooSmall"}
          /\ outDir = NoOut

C18_Witness ==
    /\ RestoreKeyMismatch /\ r_res = "KeyLength"
    /\ b_pc = "done" /\ made # {}

\* restore with verifyChecksum = true was called on an object-store source
VerifyOnS3 == r_pc # "idle" /\ r_arg.verify /\ ~SrcLocal

SecondBackupDone == prev.ran /\ b_pc = "done"

\* the encrypted bytes of an archive, after its leading IV
Ciphertext(bytes) == Drop(bytes, IV_SIZE)

highWaterMark == 1

\* chunks a stage holds when it respects its high-water mark: the queue
\* filled to the mark and one chunk in flight
QueueLimit == highWaterMark + 1

\* C21: no stage of the backup pipeline holds more than a fixed number of
\* chunks, whatever the length of the stream and however slowly the sinks
\* take them: the queue of the IV-prepending stream and of each tee branch
\* stays within the high-water mark plus the chunk in flight.
C21_BoundedBuffering ==
    /\ Len(ivQ) <= QueueLimit
    /\ Len(qFinal) <= QueueLimit
    /\ Len(qHash) <= QueueLimit

\* the names of a list of entries, in order
Names(entries) == [k \in 1..Len(entries) |-> entries[k].name]

\* restore reads an archive as backup wrote it, with backup's settings
FaithfulRestore ==
    /\ r_pc # "idle" /\ SameSettings
    /\ archive[Src].bytes = ExpectedArchive

\* C22: restore starts the entries in the order backup archived them, and
\* when an entry's handler starts (and ever after) the file of every
\* earlier entry is written in full and its writer closed: at most the
\* latest entry's writer is open.
C22_EntryOrder ==
    /\ (r_log # <<>> /\ FaithfulRestore) => IsPrefix(r_log, Names(call.entries))
    /\ (r_pc \in {"verify", "done"} /\ r_res # "TooSmall" /\ FaithfulRestore)
          => r_log = Names(call.entries)
    /\ (r_log # <<>> /\ r_pc # "idle") => IsPrefix(r_log, Names(SourceEntries))
    /\ r_open \subseteq (IF r_cur = NoEntry THEN {} ELSE {r_cur.name})
    /\ \A k \in 1..Len(r_log) :
          (k < Len(r_log) \/ r_cur = NoEntry) =>
              /\ r_log[k] \notin r_open
              /\ r_log[k] \in DOMAIN outDir.files

C22_Witness ==
    /\ FaithfulRestore /\ Len(call.entries) = 2
    /\ r_log = Names(call.entries)
    /\ r_cur # NoEntry /\ r_open = {r_log[2]}
    /\ r_log[1] \in DOMAIN outDir.files /\ r_log[2] \notin DOMAIN outDir.files

\* the extraction of an entry has failed: the tar stream was malformed or
\* cut short, or an entry's directory or file could not be written
ExtractionFailed ==
    \/ r_pc \in {"done", "stuck"} /\ r_res \in {"ExtractError", "Unhandled"}

\* C23: when the extraction of an entry fails, restore rejects with the
\* error: it is never left pending with the failure unhandled and it does
\* not report success, and the entries written before the failure stay
\* on disk.
C23_ExtractFailureRejects ==
    ExtractionFailed =>
        /\ r_pc = "done" /\ r_res = "ExtractError"
        /\ \A k \in 1..Len(r_log) : r_log[k] \in DOMAIN outDir.files

\* restore.ts 58-59, 61: the state of the source stream when it is made:
\* buffer, done, the chunks the reader has yet to yield, the chunks
\* enqueued, the calls of controller.close()
sourceStream(firstChunk, rest) ==
    [buffer |-> firstChunk, done |-> FALSE, reader |-> rest,
     queued |-> <<>>, closes |-> 0]

\* restore.ts 62-86: one call of pull(): with done set it closes; otherwise
\* it enqueues the buffer unless empty, then reads the reader to its end,
\* enqueuing every non-empty chunk, sets done and closes
pull(st) ==
    IF st.done
    THEN [st EXCEPT !.closes = @ + 1]
    ELSE [buffer |-> <<>>, done |-> TRUE, reader |-> <<>>,
          queued |-> st.queued
                       \o (IF Len(st.buffer) > 0 THEN <<st.buffer>> ELSE <<>>)
                       \o SelectSeq(st.reader, LAMBDA c : Len(c) > 0),
          closes |-> st.closes + 1]

\* the stream calls pull() as long as it is not closed
RECURSIVE drain(_)
drain(st) == IF st.closes > 0 THEN st ELSE drain(pull(st))

\* restore() has taken the IV and built the stream for the decipher
SourceStreamBuilt ==
    /\ r_pc \in {"extract", "entry", "verify", "done", "stuck"}
    /\ r_res \notin {"TooSmall", "KeyLength"}

\* C24: whatever the size of the first chunk (16 bytes or more), the IV
\* given to the decipher is source bytes [0:16) and the chunks of the
\* stream fed to the decipher, none of them empty, concatenate to exactly
\* source bytes [16:EOF); the stream is closed once, with every chunk
\* enqueued before.
C24_IvThenCiphertext ==
    SourceStreamBuilt =>
        LET chunks == createEncryptedStream(r_buf, r_rest)
            F == archive[Src].bytes
            end == drain(sourceStream(r_buf, r_rest))
        IN  /\ r_iv = Take(F, IV_SIZE)
            /\ end.closes = 1 /\ end.queued = chunks /\ end.reader = <<>>
            /\ Flatten(chunks) = Drop(F, IV_SIZE)
            /\ \A k \in 1..Len(chunks) : Len(chunks[k]) > 0
            /\ r_iv \o Flatten(chunks) = F

C24_Witness ==
    /\ SourceStreamBuilt /\ r_pc = "extract"
    /\ Len(r_buf) = 1 /\ Len(r_rest) >= 2

\* the sidecar of the source names the digest restore computes
SidecarNamesDigest ==
    /\ sidecar[Src].exists
    /\ digestHex(sidecar[Src].hex)
         = computeFileHash(r_arg.key, archive[Src].bytes)

\* C25: a sidecar that names the digest restore recomputes verifies
\* successfully whatever the case of its hex digits and whatever
\* whitespace surrounds them.
C25_CaseInsensitive ==
    (/\ r_pc = "done" /\ r_arg.verify /\ SrcLocal /\ ~FailedEarly
     /\ SidecarNamesDigest)
    => r_res = "ok"

\* the part of C25 that holds: with lower-case hex digits the sidecar
\* verifies whatever whitespace surrounds them
TrimmedSidecarVerifies ==
    (/\ r_pc = "done" /\ r_arg.verify /\ SrcLocal /\ ~FailedEarly
     /\ SidecarNamesDigest /\ ~sidecar[Src].upper)
    => r_res = "ok"

\* C26: for the formats iso and unix, of two runs of the backup command at
\* instants t1 < t2 that give different archive names, cleanup's comparator
\* sorts the name of the later run as newer than (before) the name of the
\* earlier one.
C26_LexicographicIsChronological ==
    cli_arg.fmt \in {"iso", "unix"} =>
        \A i \in DOMAIN cli_runs, j \in DOMAIN cli_runs :
            (cli_runs[i].t < cli_runs[j].t /\ cli_runs[i].name # cli_runs[j].name)
                => compare(cli_runs[j].name, cli_runs[i].name) < 0

\* C26 for one format alone
OrderedFor(format) ==
    cli_arg.fmt = format =>
        \A i \in DOMAIN cli_runs, j \in DOMAIN cli_runs :
            (cli_runs[i].t < cli_runs[j].t /\ cli_runs[i].name # cli_runs[j].name)
                => compare(cli_runs[j].name, cli_runs[i].name) < 0

UnixOrdered == OrderedFor("unix")

IsoOrdered == OrderedFor("iso")

\* C27: restore never rejects a source of 16 bytes or more as too small to
\* contain the IV, whatever the size of the first chunk its reader yields.
C27_LongSourceNotTooSmall ==
    (r_pc # "idle" /\ Len(archive[Src].bytes) >= IV_SIZE)
        => r_res # "TooSmall"

\* two or more scheduled runs with a keep-count of one or more have all
\* finished
AllRunsFinished ==
    /\ backupCount(cli_arg.count).def /\ backupCount(cli_arg.count).val >= 1
    /\ \A r \in Runs : o_runs[r].pc \in {"idle", "done"}
    /\ Cardinality({r \in Runs : o_runs[r].pc = "done"}) >= 2

\* C28: once overlapping scheduled runs with a keep-count of one or more
\* have all finished, the destination holds no sidecar without its archive
\* and no archive lacking bytes its run wrote, and the archive of every run
\* that reported completion is still there with its sidecar.
C28_OverlapConsistent ==
    AllRunsFinished =>
        /\ \A n \in DOMAIN o_side : n \in DOMAIN o_files
        /\ \A n \in DOMAIN o_files :
              \E r \in Runs : o_files[n] = <<r, r>>
        /\ \A r \in Runs :
              o_runs[r].pc = "done" =>
                  /\ o_runs[r].name \in DOMAIN o_files
                  /\ o_runs[r].name \in DOMAIN o_side

\* the archives named by backup_*.tar.<alg>.crypt that cleanup was called for
Archives0 == {f \in cl_dir0 : backupPattern(f, cl_arg.alg)}

\* C29: cleanup deletes nothing but archives named backup_*.tar.<alg>.crypt
\* for the given algorithm and their sidecars: no archive of another
\* algorithm, no untimestamped archive, no unrelated file; it deletes no
\* sidecar of an archive it keeps; and it deletes nothing at all when the
\* number of such archives is at most the keep-count.
C29_OnlySelectedDeleted ==
    (CleanupOver /\ cl_res = "ok") =>
        /\ \A f \in cl_dir0 \ dir :
              \/ f \in Archives0
              \/ \E g \in (Archives0 \ dir) \cup cl_caught : f = checksumPath(g)
        /\ \A g \in (Archives0 \cap dir) \ cl_caught :
              checksumPath(g) \in cl_dir0 => checksumPath(g) \in dir
        /\ Cardinality(Archives0) <= cl_arg.count => dir = cl_dir0

\* the numbers parseInt gives the command for its --count values
CliCounts ==
    {backupCount(opt).val :
        opt \in {o \in CountStrings : backupCount(o).def /\ ~backupCount(o).nan}}

\* the archive with the largest timestamp among those cleanup was called for
NewestArchive ==
    {f \in WellFormed0 : \A g \in WellFormed0 : localeCompare(g.ts, f.ts) <= 0}

C31_BackupSettles == <>BackupOver

C31_Witness ==
    /\ b_pc = "failed" /\ b_err = "Source"
    /\ hashOut = NoDigest
    /\ \E i \in 1..N : Len(sinks[i].handed) >= 2

====
